---------------------------- MODULE Spec2Model ----------------------------
(***************************************************************************)
(* Model of the box-score pipeline of datawrapper.py (extractors,          *)
(* analytics, chart publish adapter) and of datawrapper_api.py.            *)
(*                                                                         *)
(* Texts are sequences of one-character strings so that strip(), split()   *)
(* and numeric coercion are computed, not assumed.  A parsed document      *)
(* (BeautifulSoup) is the sequence of its nodes in document order: tables,  *)
(* divs (with their children) and comment nodes (with their markup).       *)
(***************************************************************************)
EXTENDS Integers, Sequences, FiniteSets, TLC

VARIABLES
    pc,                      \* position of the running function
    soup,                    \* parsed box-score document (main: soup)
    pbp_response,            \* what requests.get(pbp_url) answers
    line_score_df,           \* main: line_score_df
    team1_abbr,              \* main: team1_abbr
    team2_abbr,              \* main: team2_abbr
    pbp_df,                  \* main: pbp_df
    team1_stats_df,          \* main: team1_stats_df
    team2_stats_df,          \* main: team2_stats_df
    top_scorers_df,          \* main: top_scorers_df
    player_of_the_game_df,   \* main: player_of_the_game_df
    error,                   \* exception caught by main's handlers, or "none"
    datawrapper_configured,  \* module global set at import
    pub_pc,                  \* position inside the chart publish operation
    calls,                   \* HTTP calls issued to the chart service, in order
    chart_id,                \* chart_id of the publish operation
    csv_exists,              \* whether the temporary CSV file exists on disk
    query,                   \* tag and id one find_element_in_soup call looks for
    found_element,           \* what that call returned
    cache,                   \* entries kept by st.cache_data for scrape_play_by_play
    now,                     \* wall clock, in seconds
    web,                     \* what the site answers for each play-by-play page
    first_call,              \* per argument triple: time and output of its first call
    last_call                \* the most recent cached call, with what it returned

vars == <<pc, soup, pbp_response, line_score_df, team1_abbr, team2_abbr, pbp_df,
          team1_stats_df, team2_stats_df, top_scorers_df, player_of_the_game_df,
          error, datawrapper_configured, pub_pc, calls, chart_id, csv_exists,
          query, found_element, cache, now, web, first_call, last_call>>

mainVars == <<soup, pbp_response, line_score_df, team1_abbr, team2_abbr, pbp_df,
              team1_stats_df, team2_stats_df, top_scorers_df,
              player_of_the_game_df, error>>

pubVars == <<pub_pc, calls, chart_id, csv_exists>>

cacheVars == <<cache, now, web, first_call, last_call>>

envVars == <<query, found_element, cache, now, web, first_call, last_call>>

-----------------------------------------------------------------------------
(* Bounds of the explored inputs *)

MaxLsRows == 2
MaxLsCols == 2
MaxPlayerRows == 2
MaxPbpDataRows == 3
MaxClock == 600
MaxNodes == 3

-----------------------------------------------------------------------------
(* Texts *)

NBSP == "nbsp"

Null == <<"NULL">>

NaN == <<>>

Digits == {"0", "1", "2", "3", "4", "5", "6", "7", "8", "9"}

t_Team == <<"T", "e", "a", "m">>
t_Team1 == <<"T", "e", "a", "m", "1">>
t_Team2 == <<"T", "e", "a", "m", "2">>
t_AAA == <<"A", "A", "A">>
t_BBB == <<"B", "B", "B">>
t_MP == <<"M", "P">>
t_Starters == <<"S", "t", "a", "r", "t", "e", "r", "s">>
t_Player == <<"P", "l", "a", "y", "e", "r">>
t_PTS == <<"P", "T", "S">>
t_GmSc == <<"G", "m", "S", "c">>
t_TRB == <<"T", "R", "B">>
t_AST == <<"A", "S", "T">>
t_STL == <<"S", "T", "L">>
t_BLK == <<"B", "L", "K">>
t_NA == <<"N", "/", "A">>

IsSpace(c) == c \in {" ", NBSP}

RECURSIVE LStrip(_)
LStrip(t) ==
    IF t = <<>> THEN <<>>
    ELSE IF IsSpace(Head(t)) THEN LStrip(Tail(t)) ELSE t

RECURSIVE RStrip(_)
RStrip(t) ==
    IF t = <<>> THEN <<>>
    ELSE IF IsSpace(t[Len(t)]) THEN RStrip(SubSeq(t, 1, Len(t) - 1)) ELSE t

Strip(t) == RStrip(LStrip(t))

Contains(t, c) == \E i \in 1..Len(t) : t[i] = c

Member(s, x) == \E i \in 1..Len(s) : s[i] = x

RECURSIVE Split(_, _)
Split(t, sep) ==
    IF ~Contains(t, sep) THEN <<t>>
    ELSE LET i == CHOOSE k \in 1..Len(t) :
                      t[k] = sep /\ \A j \in 1..(k - 1) : t[j] # sep
         IN  <<SubSeq(t, 1, i - 1)>> \o Split(SubSeq(t, i + 1, Len(t)), sep)

DigitValue(c) ==
    CASE c = "0" -> 0 [] c = "1" -> 1 [] c = "2" -> 2 [] c = "3" -> 3
      [] c = "4" -> 4 [] c = "5" -> 5 [] c = "6" -> 6 [] c = "7" -> 7
      [] c = "8" -> 8 [] c = "9" -> 9

RECURSIVE DigitsValue(_)
DigitsValue(t) ==
    IF t = <<>> THEN 0
    ELSE 10 * DigitsValue(SubSeq(t, 1, Len(t) - 1)) + DigitValue(t[Len(t)])

IsDigits(t) == t # <<>> /\ \A i \in 1..Len(t) : t[i] \in Digits

ToNumericCoerce(v) ==
    LET t == IF v = Null THEN <<>> ELSE Strip(v) IN
    IF IsDigits(t) THEN <<DigitsValue(t)>>
    ELSE IF t # <<>> /\ Head(t) = "-" /\ IsDigits(Tail(t)) THEN <<0 - DigitsValue(Tail(t))>>
    ELSE NaN

Fillna0(x) == IF x = NaN THEN <<0>> ELSE x

-----------------------------------------------------------------------------
(* Documents *)

NoElement == [name |-> "none"]

NoneDF == [found |-> FALSE, columns |-> <<>>, index |-> <<>>, rows |-> <<>>]

Urls == {"u1", "u2"}

\* a fresh process: nothing located yet, empty cache, no page requested
EnvIdle ==
    /\ query = [type |-> "none", id |-> <<>>]
    /\ found_element = NoElement
    /\ cache = {}
    /\ now = 0
    /\ web = [u \in Urls |-> [status |-> "none"]]
    /\ first_call = {}
    /\ last_call = <<>>

Cell(name, text) == [name |-> name, text |-> text]

Row(cls, cells) == [cls |-> cls, cells |-> cells]

Table(id, thead, has_tbody, tbody) ==
    [name |-> "table", id |-> id, thead |-> thead, has_tbody |-> has_tbody,
     tbody |-> tbody]

Div(id, children) == [name |-> "div", id |-> id, children |-> children]

Comment(fragment) == [name |-> "#comment", fragment |-> fragment]

RECURSIVE Flatten(_)
Flatten(nodes) ==
    IF nodes = <<>> THEN <<>>
    ELSE LET e == Head(nodes) IN
         <<e>> \o (IF e.name = "div" THEN Flatten(e.children) ELSE <<>>)
               \o Flatten(Tail(nodes))

Find(nodes, element_type, element_id) ==
    LET all == Flatten(nodes)
        hits == {i \in 1..Len(all) :
                    all[i].name = element_type /\ all[i].id = element_id}
    IN  IF hits = {} THEN NoElement
        ELSE all[CHOOSE i \in hits : \A j \in hits : i <= j]

IsComment(e) == e.name = "#comment"

find_element_in_soup_LastComment(s, element_type, element_id) ==
    LET element == Find(s, element_type, element_id)
        comments == SelectSeq(Flatten(s), IsComment)
        hits == {i \in 1..Len(comments) :
                    Find(comments[i].fragment, element_type, element_id) # NoElement}
    IN  IF element # NoElement THEN element
        ELSE IF hits = {} THEN NoElement
        ELSE Find(comments[CHOOSE i \in hits : \A j \in hits : i >= j].fragment,
                  element_type, element_id)

find_element_in_soup(s, element_type, element_id) ==
    LET element == Find(s, element_type, element_id)
        comments == SelectSeq(Flatten(s), IsComment)
        hits == {i \in 1..Len(comments) :
                    Find(comments[i].fragment, element_type, element_id) # NoElement}
    IN  IF element # NoElement THEN element
        ELSE IF hits = {} THEN NoElement
        ELSE Find(comments[CHOOSE i \in hits : \A j \in hits : i <= j].fragment,
                  element_type, element_id)

CellTexts(row) == [i \in 1..Len(row.cells) |-> Strip(row.cells[i].text)]

MaxRowLen(data) ==
    IF data = <<>> THEN 0
    ELSE LET lens == {Len(data[i]) : i \in 1..Len(data)}
         IN  CHOOSE m \in lens : \A n \in lens : n <= m

PadRow(row, n) == row \o [i \in 1..(IF n > Len(row) THEN n - Len(row) ELSE 0) |-> Null]

DataFrameRaises(data, columns) == data # <<>> /\ MaxRowLen(data) # Len(columns)

DataFrame(data, columns) ==
    [found |-> TRUE, columns |-> columns,
     index |-> [i \in 1..Len(data) |-> i - 1],
     rows |-> [i \in 1..Len(data) |-> PadRow(data[i], Len(columns))]]

-----------------------------------------------------------------------------
(* scrape_line_score *)

LineScoreId == <<"line_score">>

LineScoreHeaderCells(table) ==
    IF Len(table.thead) >= 2 THEN CellTexts(table.thead[2]) ELSE <<>>

RenameHeader(h) == IF h # <<NBSP>> THEN h ELSE t_Team

LineScoreHeaders(table) ==
    LET headers == LineScoreHeaderCells(table)
    IN  [i \in 1..Len(headers) |-> RenameHeader(headers[i])]

HasCells(row) == row # <<>>

LineScoreData_SkipEmptyRows(table) ==
    SelectSeq([i \in 1..Len(table.tbody) |-> CellTexts(table.tbody[i])], HasCells)

LineScoreData(table) == [i \in 1..Len(table.tbody) |-> CellTexts(table.tbody[i])]

scrape_line_score_EmptyFrame(s) ==
    LET line_score_table == find_element_in_soup(s, "table", LineScoreId) IN
    IF line_score_table # NoElement
    THEN LET headers == LineScoreHeaders(line_score_table)
             data == LineScoreData(line_score_table)
         IN  IF headers # <<>>
             THEN IF DataFrameRaises(data, headers) THEN NoneDF
                  ELSE DataFrame(data, headers)
             ELSE NoneDF
    ELSE NoneDF

scrape_line_score(s) ==
    LET line_score_table == find_element_in_soup(s, "table", LineScoreId) IN
    IF line_score_table # NoElement
    THEN LET headers == LineScoreHeaders(line_score_table)
             data == LineScoreData(line_score_table)
         IN  IF headers # <<>> /\ data # <<>>
             THEN IF DataFrameRaises(data, headers) THEN NoneDF
                  ELSE DataFrame(data, headers)
             ELSE NoneDF
    ELSE NoneDF

-----------------------------------------------------------------------------
(* scrape_team_basic_stats *)

Str(v) == IF v = Null THEN <<"N", "o", "n", "e">> ELSE v

DivId(team_abbr) == <<"div_box-", Str(team_abbr), "-game-basic">>

TableId(team_abbr) == <<"box-", Str(team_abbr), "-game-basic">>

HeaderRowIndex(table) ==
    LET hits == {i \in 1..Len(table.thead) : Member(CellTexts(table.thead[i]), t_MP)}
    IN  IF hits = {} THEN 0 ELSE CHOOSE i \in hits : \A j \in hits : i <= j

IsPlayerRow(row) ==
    /\ row.cls # "thead"
    /\ ~(\/ row.cells = <<>>
         \/ Strip(row.cells[1].text) = <<>>
         \/ row.cells[1].name # "th")

TeamStatsData(table) ==
    IF table.has_tbody
    THEN LET player_rows == SelectSeq(table.tbody, IsPlayerRow)
         IN  [i \in 1..Len(player_rows) |-> CellTexts(player_rows[i])]
    ELSE <<>>

PaddedData_NoPadding(data, max_cols) == data

PaddedData(data, max_cols) ==
    [i \in 1..Len(data) |->
        data[i] \o [k \in 1..(IF max_cols - Len(data[i]) > 0
                              THEN max_cols - Len(data[i]) ELSE 0) |-> Null]]

scrape_team_basic_stats_LocatorTwice(s, team_abbr) ==
    LET container_div == find_element_in_soup(s, "div", DivId(team_abbr)) IN
    IF container_div = NoElement THEN NoneDF
    ELSE
    LET team_stats_table == find_element_in_soup(container_div.children, "table",
                                                 TableId(team_abbr)) IN
    IF team_stats_table = NoElement THEN NoneDF
    ELSE
    LET h == HeaderRowIndex(team_stats_table) IN
    IF h = 0 THEN NoneDF
    ELSE
    LET headers == CellTexts(team_stats_table.thead[h])
        data == TeamStatsData(team_stats_table)
    IN  IF data # <<>>
        THEN LET padded_data == PaddedData(data, Len(headers))
             IN  IF DataFrameRaises(padded_data, headers) THEN NoneDF
                 ELSE DataFrame(padded_data, headers)
        ELSE NoneDF

scrape_team_basic_stats(s, team_abbr) ==
    LET container_div == find_element_in_soup(s, "div", DivId(team_abbr)) IN
    IF container_div = NoElement THEN NoneDF
    ELSE
    LET team_stats_table == Find(container_div.children, "table", TableId(team_abbr)) IN
    IF team_stats_table = NoElement THEN NoneDF
    ELSE
    LET h == HeaderRowIndex(team_stats_table) IN
    IF h = 0 THEN NoneDF
    ELSE
    LET headers == CellTexts(team_stats_table.thead[h])
        data == TeamStatsData(team_stats_table)
    IN  IF data # <<>>
        THEN LET padded_data == PaddedData(data, Len(headers))
             IN  IF DataFrameRaises(padded_data, headers) THEN NoneDF
                 ELSE DataFrame(padded_data, headers)
        ELSE NoneDF

-----------------------------------------------------------------------------
(* scrape_play_by_play *)

PbpId == <<"pbp">>

AllTrs(table) == table.thead \o table.tbody

RowSkipped_EitherBlank(row) ==
    \/ Len(row.cells) < 5
    \/ (Strip(row.cells[3].text) = <<>> \/ Strip(row.cells[5].text) = <<>>)

RowSkipped(row) ==
    \/ Len(row.cells) < 5
    \/ (Strip(row.cells[3].text) = <<>> /\ Strip(row.cells[5].text) = <<>>)

RowKept(row) == ~RowSkipped(row)

ScoreStrings(score_text) ==
    IF score_text # <<>> /\ Contains(score_text, "-")
    THEN LET scores == Split(score_text, "-")
         IN  IF Len(scores) = 2 THEN <<Strip(scores[1]), Strip(scores[2])>>
             ELSE <<t_NA, t_NA>>
    ELSE <<t_NA, t_NA>>

PbpData(all_trs) ==
    LET kept == SelectSeq(SubSeq(all_trs, 3, Len(all_trs)), RowKept)
    IN  [i \in 1..Len(kept) |-> ScoreStrings(Strip(kept[i].cells[4].text))]

ScoreColumns_NoCoercion(data) == data

ScoreColumns(data) ==
    [i \in 1..Len(data) |->
        <<Fillna0(ToNumericCoerce(data[i][1])), Fillna0(ToNumericCoerce(data[i][2]))>>]

scrape_play_by_play(response, team1, team2) ==
    IF response.status # "ok" THEN NoneDF
    ELSE
    LET pbp_table == find_element_in_soup(response.soup, "table", PbpId) IN
    IF pbp_table = NoElement THEN NoneDF
    ELSE
    LET all_trs == AllTrs(pbp_table) IN
    IF Len(all_trs) >= 3
    THEN LET data == PbpData(all_trs) IN
         IF data # <<>>
         THEN IF team1 = team2 THEN NoneDF
              ELSE DataFrame(ScoreColumns(data), <<team1, team2>>)
         ELSE NoneDF
    ELSE NoneDF

\* line 133: @st.cache_data(ttl=600) keeps, per argument triple, the value the
\* function returned (None included) and serves it until the entry is 600 s old
ttl == 600

CacheKey_UrlOnly(original_url, team1, team2) == <<original_url>>

CacheKey(original_url, team1, team2) == <<original_url, team1, team2>>

CacheHit(c, key, t) == \E en \in c : en.key = key /\ t - en.stored_at < ttl

CacheRead(c, key) == (CHOOSE en \in c : en.key = key).value

CacheWrite(c, key, value, t) ==
    {en \in c : en.key # key} \cup {[key |-> key, value |-> value, stored_at |-> t]}

\* what the decorated scrape_play_by_play returns at time t, `response` being
\* what requests.get would answer if the body ran
cached_scrape_play_by_play(c, t, response, original_url, team1, team2) ==
    LET key == CacheKey(original_url, team1, team2) IN
    IF CacheHit(c, key, t) THEN CacheRead(c, key)
    ELSE scrape_play_by_play(response, team1, team2)

\* the cache after that call
CacheAfterCall(c, t, response, original_url, team1, team2) ==
    LET key == CacheKey(original_url, team1, team2) IN
    IF CacheHit(c, key, t) THEN c
    ELSE CacheWrite(c, key, scrape_play_by_play(response, team1, team2), t)

-----------------------------------------------------------------------------
(* Input documents of the line-score extractor *)

SeqsUpTo(S, n) == UNION {[1..k -> S] : k \in 0..n}

TdCells(texts) == [i \in 1..Len(texts) |-> Cell(IF i = 1 THEN "th" ELSE "td", texts[i])]

LsHeaderTexts == {<<>>, <<NBSP>>, <<" ">>, t_Team, <<"1">>}

GroupingRow == Row("over_header", <<Cell("th", <<>>), Cell("th", <<"Q">>)>>)

LsTheads ==
    {<<>>, <<GroupingRow>>}
        \cup {<<GroupingRow, Row("", TdCells(h))>> : h \in SeqsUpTo(LsHeaderTexts, MaxLsCols)}

LsBodyRows ==
    {Row("", <<>>)}
        \cup {Row("", TdCells(<<a>> \o [i \in 1..k |-> <<"9">>])) :
                 a \in {t_AAA, t_BBB}, k \in 0..(MaxLsCols - 1)}

LsBodies == SeqsUpTo(LsBodyRows, MaxLsRows)

Placements == {"absent", "live", "comment"}

Placed(element, placement) ==
    CASE placement = "absent" -> <<>>
      [] placement = "live" -> <<element>>
      [] placement = "comment" -> <<Comment(<<element>>)>>

(* One call of scrape_line_score(soup) on an arbitrary document *)

InitLine ==
    /\ pc = "scrape_line_score"
    /\ \E h \in LsTheads, b \in LsBodies, placement \in Placements :
          soup = Placed(Table(LineScoreId, h, TRUE, b), placement)
    /\ pbp_response = [status |-> "none"]
    /\ line_score_df = NoneDF
    /\ team1_abbr = t_Team1
    /\ team2_abbr = t_Team2
    /\ pbp_df = NoneDF
    /\ team1_stats_df = NoneDF
    /\ team2_stats_df = NoneDF
    /\ top_scorers_df = NoneDF
    /\ player_of_the_game_df = NoneDF
    /\ error = "none"
    /\ datawrapper_configured = TRUE
    /\ pub_pc = "idle"
    /\ calls = <<>>
    /\ chart_id = "None"
    /\ csv_exists = FALSE
    /\ EnvIdle

CallScrapeLineScore ==
    /\ pc = "scrape_line_score"
    /\ line_score_df' = scrape_line_score(soup)
    /\ pc' = "returned"
    /\ UNCHANGED <<soup, pbp_response, team1_abbr, team2_abbr, pbp_df, team1_stats_df,
                   team2_stats_df, top_scorers_df, player_of_the_game_df, error,
                   datawrapper_configured, pubVars>>
    /\ UNCHANGED envVars

NextLine == CallScrapeLineScore

SpecLine == InitLine /\ [][NextLine]_vars

-----------------------------------------------------------------------------
(* Claims about the line-score extractor (under SpecLine) *)

LocatedLineScore == find_element_in_soup(soup, "table", LineScoreId)

\* C8 (as stated): the Line-Score Extractor's result has either 0 rows
\* ("not found") or at least 2 rows; it never returns exactly one row.
C8_NoPartialLineScore ==
    pc = "returned" =>
        (Len(line_score_df.rows) = 0 \/ Len(line_score_df.rows) >= 2)

\* C8 (amended): the result is either "not found" (0 rows) or has exactly one
\* row per body row of the located table, at least 1; a one-row result is
\* possible (the caller, not the extractor, requires two rows).
C8_RowPerBodyRow ==
    pc = "returned" =>
        IF line_score_df.found
        THEN /\ LocatedLineScore # NoElement
             /\ Len(line_score_df.rows) = Len(LocatedLineScore.tbody)
             /\ Len(line_score_df.rows) >= 1
        ELSE line_score_df.rows = <<>>

C8_Witness ==
    pc = "returned" /\ line_score_df.found /\ Len(line_score_df.rows) = 1

IsBlankOrNbsp(text) == text = <<NBSP>> \/ Strip(text) = <<>>

\* C9: every cell of the second header row whose text is blank or is the
\* non-breaking-space character yields the column name "Team" in the result.
C9_HeaderNormalization ==
    (pc = "returned" /\ line_score_df.found) =>
        \A i \in 1..Len(LocatedLineScore.thead[2].cells) :
            IsBlankOrNbsp(LocatedLineScore.thead[2].cells[i].text)
                => line_score_df.columns[i] = t_Team

-----------------------------------------------------------------------------
(* Input documents of the team-stats extractor *)

t_P1 == <<"P", "1">>
t_P2 == <<"P", "2">>
t_P3 == <<"P", "3">>

Cells(names, texts) == [i \in 1..Len(texts) |-> Cell(names[i], texts[i])]

ThTd == <<"th", "td", "td", "td", "td", "td", "td", "td", "td">>

AllTh == <<"th", "th", "th", "th", "th", "th", "th", "th", "th">>

AllTd == <<"td", "td", "td", "td", "td", "td", "td", "td", "td">>

TsTheads ==
    { <<>>,
      <<Row("over_header", Cells(AllTh, <<<<>>, <<"B", "a", "s", "i", "c">>>>))>>,
      <<Row("", Cells(AllTh, <<t_Starters, t_PTS>>))>>,
      <<Row("", Cells(AllTh, <<t_Starters, t_MP, t_PTS>>))>>,
      <<Row("over_header", Cells(AllTh, <<<<>>, <<"B", "a", "s", "i", "c">>>>)),
        Row("", Cells(AllTh, <<t_Starters, t_MP, t_PTS>>))>> }

TsBodyRows ==
    { Row("", <<>>),
      Row("", Cells(ThTd, <<t_P1, <<"3", "5">>, <<"3", "0">>>>)),
      Row("", Cells(ThTd, <<t_P2, <<"D", "N", "P">>>>)),
      Row("", Cells(ThTd, <<t_P3, <<"2", "0">>, <<"8">>, <<"x">>>>)),
      Row("thead", Cells(AllTh, <<<<"R", "e", "s">>, t_MP, t_PTS>>)),
      Row("", Cells(AllTd, <<<<"T", "o", "t">>, <<"2", "4", "0">>, <<"9", "9">>>>)),
      Row("", Cells(ThTd, <<<<NBSP>>, <<"1">>, <<"2">>>>)) }

TsBodies == SeqsUpTo(TsBodyRows, MaxPlayerRows)

TsContainers(team_abbr, table) ==
    {<<>>, <<Div(DivId(team_abbr), <<>>)>>, <<Div(DivId(team_abbr), <<table>>)>>,
     <<Div(DivId(team_abbr), <<Comment(<<table>>)>>)>>,
     <<Comment(<<Div(DivId(team_abbr), <<table>>)>>)>>}

(* One call of scrape_team_basic_stats(soup, team1_abbr) on an arbitrary document *)

InitTeam ==
    /\ pc = "scrape_team_basic_stats"
    /\ team1_abbr = t_AAA
    /\ \E h \in TsTheads, b \in TsBodies, has_tbody \in BOOLEAN :
          soup \in TsContainers(t_AAA,
                    Table(TableId(t_AAA), h, has_tbody, IF has_tbody THEN b ELSE <<>>))
    /\ pbp_response = [status |-> "none"]
    /\ line_score_df = NoneDF
    /\ team2_abbr = t_Team2
    /\ pbp_df = NoneDF
    /\ team1_stats_df = NoneDF
    /\ team2_stats_df = NoneDF
    /\ top_scorers_df = NoneDF
    /\ player_of_the_game_df = NoneDF
    /\ error = "none"
    /\ datawrapper_configured = TRUE
    /\ pub_pc = "idle"
    /\ calls = <<>>
    /\ chart_id = "None"
    /\ csv_exists = FALSE
    /\ EnvIdle

CallScrapeTeamBasicStats ==
    /\ pc = "scrape_team_basic_stats"
    /\ team1_stats_df' = scrape_team_basic_stats(soup, team1_abbr)
    /\ pc' = "returned"
    /\ UNCHANGED <<soup, pbp_response, line_score_df, team1_abbr, team2_abbr, pbp_df,
                   team2_stats_df, top_scorers_df, player_of_the_game_df, error,
                   datawrapper_configured, pubVars>>
    /\ UNCHANGED envVars

NextTeam == CallScrapeTeamBasicStats

SpecTeam == InitTeam /\ [][NextTeam]_vars

-----------------------------------------------------------------------------
(* Claims about the team-stats extractor (under SpecTeam) *)

LocatedDiv == find_element_in_soup(soup, "div", DivId(team1_abbr))

LocatedTeamTable ==
    IF LocatedDiv = NoElement THEN NoElement
    ELSE Find(LocatedDiv.children, "table", TableId(team1_abbr))

HeaderSelected == LocatedTeamTable # NoElement /\ HeaderRowIndex(LocatedTeamTable) # 0

SelectedHeaderLen == Len(LocatedTeamTable.thead[HeaderRowIndex(LocatedTeamTable)].cells)

SurvivingRows == TeamStatsData(LocatedTeamTable)

NullPadded(row, n) == row \o [k \in 1..(n - Len(row)) |-> Null]

C7_OverLongRowsTruncated ==
    ( /\ pc = "returned"
      /\ HeaderSelected
      /\ \E i \in 1..Len(SurvivingRows) : Len(SurvivingRows[i]) > SelectedHeaderLen )
    => /\ team1_stats_df.found
       /\ Len(team1_stats_df.rows) = Len(SurvivingRows)
       /\ \A i \in 1..Len(SurvivingRows) :
             Len(team1_stats_df.rows[i]) = SelectedHeaderLen

-----------------------------------------------------------------------------
(* Input documents of the play-by-play extractor *)

PbpCells(texts) == Cells(AllTd, texts)

t_Time == <<"1", "2", ":", "0", "0">>

PbpRow(c3, score, c5) == Row("", PbpCells(<<t_Time, <<"p">>, c3, score, c5, <<>>>>))

PbpHeadRows ==
    { Row("thead", Cells(AllTh, <<<<"1", "s", "t", " ", "Q">>>>)),
      PbpRow(<<"x">>, <<"2", "-", "0">>, <<"y">>) }

PbpBodyRows ==
    { PbpRow(<<"x">>, <<"1", "0", "-", "8">>, <<" ">>),
      PbpRow(<<"x">>, <<"1", "2", "-", "1", "1">>, <<"y">>),
      PbpRow(<<>>, t_NA, <<"y">>),
      PbpRow(<<"x">>, <<>>, <<"y">>),
      PbpRow(<<"x">>, <<"1", "-", "2", "-", "3">>, <<>>),
      PbpRow(<<>>, <<"7", " ", "-", " ", "x">>, <<"y">>),
      PbpRow(<<>>, <<"1", "0", "-", "8">>, <<" ">>),
      Row("", PbpCells(<<t_Time, <<"p">>, <<"x">>, <<"4", "-", "2">>>>)) }

PbpRowSeqs ==
    SeqsUpTo(PbpHeadRows, 1)
      \cup {h \o b : h \in [1..2 -> PbpHeadRows], b \in SeqsUpTo(PbpBodyRows, MaxPbpDataRows)}

FailedResponses == {[status |-> "connection_error"], [status |-> "http_error"]}

(* One call of scrape_play_by_play(url, team1_abbr, team2_abbr) *)

InitPbp ==
    /\ pc = "scrape_play_by_play"
    /\ \/ pbp_response \in FailedResponses
       \/ \E rows \in PbpRowSeqs, placement \in Placements :
             pbp_response = [status |-> "ok",
                             soup |-> Placed(Table(PbpId, <<>>, TRUE, rows), placement)]
    /\ team1_abbr = t_AAA
    /\ team2_abbr \in {t_BBB, t_AAA}
    /\ soup = <<>>
    /\ line_score_df = NoneDF
    /\ pbp_df = NoneDF
    /\ team1_stats_df = NoneDF
    /\ team2_stats_df = NoneDF
    /\ top_scorers_df = NoneDF
    /\ player_of_the_game_df = NoneDF
    /\ error = "none"
    /\ datawrapper_configured = TRUE
    /\ pub_pc = "idle"
    /\ calls = <<>>
    /\ chart_id = "None"
    /\ csv_exists = FALSE
    /\ EnvIdle

CallScrapePlayByPlay ==
    /\ pc = "scrape_play_by_play"
    /\ pbp_df' = scrape_play_by_play(pbp_response, team1_abbr, team2_abbr)
    /\ pc' = "returned"
    /\ UNCHANGED <<soup, pbp_response, line_score_df, team1_abbr, team2_abbr,
                   team1_stats_df, team2_stats_df, top_scorers_df,
                   player_of_the_game_df, error, datawrapper_configured, pubVars>>
    /\ UNCHANGED envVars

NextPbp == CallScrapePlayByPlay

SpecPbp == InitPbp /\ [][NextPbp]_vars

-----------------------------------------------------------------------------
(* Claims about the play-by-play extractor (under SpecPbp) *)

LocatedPbpRows ==
    AllTrs(find_element_in_soup(pbp_response.soup, "table", PbpId))

RowsAfterFirstTwo == SubSeq(LocatedPbpRows, 3, Len(LocatedPbpRows))

BothIndicatorsEmptyOrShort(row) ==
    \/ Len(row.cells) < 5
    \/ (Strip(row.cells[3].text) = <<>> /\ Strip(row.cells[5].text) = <<>>)

IsPlayRow(row) == ~BothIndicatorsEmptyOrShort(row)

PlayRows == SelectSeq(RowsAfterFirstTwo, IsPlayRow)

ScoreText(row) == Strip(row.cells[4].text)

OneSeparator(t) == Cardinality({i \in 1..Len(t) : t[i] = "-"}) = 1

\* C4: among the rows after the first two, a row whose 3rd and 5th cells are
\* both empty (or that has fewer than 5 cells) is never emitted, whatever its
\* 4th cell; the emitted points are exactly the other rows, in table order,
\* and their sequence indices are exactly 0..n-1 with no gap.
C4_SkipRuleAndIndices ==
    (pc = "returned" /\ pbp_df.found) =>
        /\ Len(pbp_df.rows) = Len(PlayRows)
        /\ pbp_df.index = [k \in 1..Len(PlayRows) |-> k - 1]
        /\ \A k \in 1..Len(PlayRows) :
              OneSeparator(ScoreText(PlayRows[k])) =>
                  LET parts == Split(ScoreText(PlayRows[k]), "-")
                  IN  pbp_df.rows[k] = <<Fillna0(ToNumericCoerce(parts[1])),
                                         Fillna0(ToNumericCoerce(parts[2]))>>

C4_Witness ==
    /\ pc = "returned"
    /\ pbp_df.found
    /\ Len(pbp_df.rows) = 2
    /\ pbp_df.rows[1] # pbp_df.rows[2]
    /\ BothIndicatorsEmptyOrShort(RowsAfterFirstTwo[2])
    /\ Len(RowsAfterFirstTwo[2].cells) >= 5
    /\ OneSeparator(ScoreText(RowsAfterFirstTwo[2]))

-----------------------------------------------------------------------------
(* create_and_publish_datawrapper_chart and create_chart_from_csv *)

CsvHeaders(df) == <<<<>>>> \o df.columns

Responses == {"2xx", "non2xx", "connection_error"}

CreateResponses == Responses \cup {"2xx_without_id"}

RaiseForStatus_Never(status) == FALSE

RaiseForStatus(status) == status = "non2xx"

RequestRaises(status) == status = "connection_error" \/ RaiseForStatus(status)

HttpCall(method, url, status) == [call |-> url, method |-> method, status |-> status]

RemoveCsv_Skipped == UNCHANGED csv_exists

\* lines 400-403: the finally clause removes the file written at line 225
RemoveCsv == csv_exists' = FALSE

\* lines 212-225: the configuration guard, then df.to_csv(csv_filename)
PubEnter ==
    /\ pub_pc = "called"
    /\ IF ~datawrapper_configured
       THEN pub_pc' = "returned" /\ UNCHANGED csv_exists
       ELSE pub_pc' = "read_headers" /\ csv_exists' = TRUE
    /\ UNCHANGED <<pc, mainVars, datawrapper_configured, calls, chart_id>>
    /\ UNCHANGED envVars

\* lines 228-241 (and the finally clause when fewer than 3 columns)
PubReadHeaders ==
    /\ pub_pc = "read_headers"
    /\ IF Len(CsvHeaders(pbp_df)) < 3
       THEN pub_pc' = "returned" /\ RemoveCsv
       ELSE pub_pc' = "create" /\ UNCHANGED csv_exists
    /\ UNCHANGED <<pc, mainVars, datawrapper_configured, calls, chart_id>>
    /\ UNCHANGED envVars

\* lines 243-250, then the except/finally clauses when the call fails
PubCreate ==
    /\ pub_pc = "create"
    /\ \E status \in CreateResponses :
          /\ calls' = Append(calls, HttpCall("POST", "create", status))
          /\ IF RequestRaises(status) \/ status = "2xx_without_id"
             THEN pub_pc' = "returned" /\ RemoveCsv /\ UNCHANGED chart_id
             ELSE pub_pc' = "upload" /\ chart_id' = "id" /\ UNCHANGED csv_exists
    /\ UNCHANGED <<pc, mainVars, datawrapper_configured>>
    /\ UNCHANGED envVars

\* lines 252-257
PubUpload ==
    /\ pub_pc = "upload"
    /\ \E status \in Responses :
          /\ calls' = Append(calls, HttpCall("PUT", "upload", status))
          /\ IF RequestRaises(status)
             THEN pub_pc' = "returned" /\ RemoveCsv
             ELSE pub_pc' = "patch" /\ UNCHANGED csv_exists
    /\ UNCHANGED <<pc, mainVars, datawrapper_configured, chart_id>>
    /\ UNCHANGED envVars

\* lines 259-362
PubPatch ==
    /\ pub_pc = "patch"
    /\ \E status \in Responses :
          /\ calls' = Append(calls, HttpCall("PATCH", "patch", status))
          /\ IF RequestRaises(status)
             THEN pub_pc' = "returned" /\ RemoveCsv
             ELSE pub_pc' = "publish" /\ UNCHANGED csv_exists
    /\ UNCHANGED <<pc, mainVars, datawrapper_configured, chart_id>>
    /\ UNCHANGED envVars

\* lines 364-403: publish, embed the iframe, then the finally clause
PubPublish ==
    /\ pub_pc = "publish"
    /\ \E status \in Responses :
          calls' = Append(calls, HttpCall("POST", "publish", status))
    /\ pub_pc' = "returned"
    /\ RemoveCsv
    /\ UNCHANGED <<pc, mainVars, datawrapper_configured, chart_id>>
    /\ UNCHANGED envVars

PublishStep ==
    PubEnter \/ PubReadHeaders \/ PubCreate \/ PubUpload \/ PubPatch \/ PubPublish

\* datawrapper_api.py lines 17-30
ApiEnter ==
    /\ pub_pc = "api_called"
    /\ IF ~csv_exists \/ Len(CsvHeaders(pbp_df)) < 3
       THEN pub_pc' = "api_raised"
       ELSE pub_pc' = "api_create"
    /\ UNCHANGED <<pc, mainVars, datawrapper_configured, calls, chart_id, csv_exists>>
    /\ UNCHANGED envVars

\* datawrapper_api.py lines 32-40
ApiCreate ==
    /\ pub_pc = "api_create"
    /\ \E status \in CreateResponses :
          /\ calls' = Append(calls, HttpCall("POST", "create", status))
          /\ IF RequestRaises(status) \/ status = "2xx_without_id"
             THEN pub_pc' = "api_raised" /\ UNCHANGED chart_id
             ELSE pub_pc' = "api_upload" /\ chart_id' = "id"
    /\ UNCHANGED <<pc, mainVars, datawrapper_configured, csv_exists>>
    /\ UNCHANGED envVars

\* datawrapper_api.py lines 42-48
ApiUpload ==
    /\ pub_pc = "api_upload"
    /\ \E status \in Responses :
          /\ calls' = Append(calls, HttpCall("PUT", "upload", status))
          /\ pub_pc' = IF RequestRaises(status) THEN "api_raised" ELSE "api_patch"
    /\ UNCHANGED <<pc, mainVars, datawrapper_configured, chart_id, csv_exists>>
    /\ UNCHANGED envVars

\* datawrapper_api.py lines 50-113
ApiPatch ==
    /\ pub_pc = "api_patch"
    /\ \E status \in Responses :
          /\ calls' = Append(calls, HttpCall("PATCH", "patch", status))
          /\ pub_pc' = IF RequestRaises(status) THEN "api_raised" ELSE "api_publish"
    /\ UNCHANGED <<pc, mainVars, datawrapper_configured, chart_id, csv_exists>>
    /\ UNCHANGED envVars

\* datawrapper_api.py lines 115-121
ApiPublish ==
    /\ pub_pc = "api_publish"
    /\ \E status \in Responses :
          /\ calls' = Append(calls, HttpCall("POST", "publish", status))
          /\ pub_pc' = IF RequestRaises(status) THEN "api_raised" ELSE "api_returned"
    /\ UNCHANGED <<pc, mainVars, datawrapper_configured, chart_id, csv_exists>>
    /\ UNCHANGED envVars

ApiStep == ApiEnter \/ ApiCreate \/ ApiUpload \/ ApiPatch \/ ApiPublish

(* One chart-publish operation on an arbitrary margin series *)

MarginSeries ==
    {DataFrame(d, <<a, b>>) :
        d \in {<<<<<<2>>, <<0>>>>>>, <<<<<<2>>, <<0>>>>, <<<<2>>, <<3>>>>>>,
               <<<<<<0>>, <<0>>>>, <<<<10>>, <<8>>>>>>},
        a \in {t_AAA, t_Team1}, b \in {t_BBB, t_Team2}}

\* frames with a single column: with the index column the file then has two
\* headers, which the guard at lines 234-236 rejects
NarrowSeries ==
    {DataFrame(d, <<a>>) :
        d \in {<<<<<<2>>>>>>, <<<<<<2>>>>, <<<<3>>>>>>}, a \in {t_AAA, t_Team1}}

InitPublish ==
    /\ pc = "publish"
    /\ pbp_df \in MarginSeries \cup NarrowSeries
    /\ team1_abbr = pbp_df.columns[1]
    /\ team2_abbr = IF Len(pbp_df.columns) >= 2 THEN pbp_df.columns[2] ELSE t_Team2
    /\ datawrapper_configured \in BOOLEAN
    /\ \/ pub_pc = "called" /\ csv_exists = FALSE
       \/ pub_pc = "api_called" /\ csv_exists \in BOOLEAN /\ datawrapper_configured
    /\ calls = <<>>
    /\ chart_id = "None"
    /\ soup = <<>>
    /\ pbp_response = [status |-> "none"]
    /\ line_score_df = NoneDF
    /\ team1_stats_df = NoneDF
    /\ team2_stats_df = NoneDF
    /\ top_scorers_df = NoneDF
    /\ player_of_the_game_df = NoneDF
    /\ error = "none"
    /\ EnvIdle

NextPublish == PublishStep \/ ApiStep

SpecPublish == InitPublish /\ [][NextPublish]_vars

-----------------------------------------------------------------------------
(* Claims about the chart-publish operation (under SpecPublish) *)

PublishOrder == <<"create", "upload", "patch", "publish">>

Succeeded(call) == call.status \in {"2xx", "2xx_without_id"}

PublishEnded == pub_pc \in {"returned", "api_returned", "api_raised"}

\* C10: the chart-publish operation issues its calls in the order create,
\* upload, patch, publish; each call is issued at most once and only after the
\* previous call succeeded; a non-success response to any call ends the
\* operation with no later call issued and no rollback (delete) call.
C10_PublishOrdering ==
    /\ Len(calls) <= 4
    /\ \A i \in 1..Len(calls) :
          /\ calls[i].call = PublishOrder[i]
          /\ i < Len(calls) => Succeeded(calls[i])
          /\ ~Succeeded(calls[i]) => (i = Len(calls) /\ PublishEnded)

C10_Witness ==
    /\ pub_pc = "returned"
    /\ Len(calls) = 3
    /\ Succeeded(calls[1]) /\ Succeeded(calls[2])
    /\ calls[3].call = "patch" /\ calls[3].status = "non2xx"

\* C11: on every exit path of the publish adapter after the temporary file
\* was written (success, failure of any of the four calls, too few columns,
\* unexpected error), the file no longer exists when the adapter has returned.
C11_GuaranteedCleanup == pub_pc = "returned" => ~csv_exists

C11_Witness ==
    /\ pub_pc = "returned"
    /\ datawrapper_configured
    /\ Len(calls) = 2
    /\ calls[2].call = "upload" /\ calls[2].status = "connection_error"
    /\ ~csv_exists

-----------------------------------------------------------------------------
(* main: frame helpers (pandas column selection, rename, concat) *)

Truthy(v) == v # <<>> /\ v # Null

ColIndex(df, col) ==
    LET hits == {i \in 1..Len(df.columns) : df.columns[i] = col}
    IN  IF hits = {} THEN 0 ELSE CHOOSE i \in hits : \A j \in hits : i <= j

HasColumns(df, cols) == \A k \in 1..Len(cols) : ColIndex(df, cols[k]) # 0

SelectColumns(df, cols) ==
    [found |-> TRUE, columns |-> cols, index |-> df.index,
     rows |-> [i \in 1..Len(df.rows) |->
                  [k \in 1..Len(cols) |-> df.rows[i][ColIndex(df, cols[k])]]]]

RenameColumn(df, old, new) ==
    [df EXCEPT !.columns = [k \in 1..Len(df.columns) |->
                               IF df.columns[k] = old THEN new ELSE df.columns[k]]]

WithColumn(df, col, value) ==
    [df EXCEPT !.columns = Append(df.columns, col),
               !.rows = [i \in 1..Len(df.rows) |-> Append(df.rows[i], value)]]

RECURSIVE ConcatColumns(_)
ConcatColumns(frames) ==
    IF frames = <<>> THEN <<>>
    ELSE LET rest == ConcatColumns(SubSeq(frames, 1, Len(frames) - 1))
             last == frames[Len(frames)].columns
         IN  rest \o SelectSeq(last, LAMBDA c : ~Member(rest, c))

Reindexed(df, cols) ==
    [i \in 1..Len(df.rows) |->
        [k \in 1..Len(cols) |->
            IF ColIndex(df, cols[k]) = 0 THEN Null
            ELSE df.rows[i][ColIndex(df, cols[k])]]]

RECURSIVE ConcatRows(_, _)
ConcatRows(frames, cols) ==
    IF frames = <<>> THEN <<>>
    ELSE Reindexed(Head(frames), cols) \o ConcatRows(Tail(frames), cols)

Concat(frames) ==
    LET cols == ConcatColumns(frames)
        rows == ConcatRows(frames, cols)
    IN  [found |-> TRUE, columns |-> cols,
         index |-> [i \in 1..Len(rows) |-> i - 1], rows |-> rows]

ColumnToNumeric(df, col) ==
    [df EXCEPT !.rows = [i \in 1..Len(df.rows) |->
        [k \in 1..Len(df.columns) |->
            IF df.columns[k] = col THEN Fillna0(ToNumericCoerce(df.rows[i][k]))
            ELSE df.rows[i][k]]]]

(* main: Top Scorers and Player of the Game sections *)

required_cols_top_scorers == <<t_Starters, t_PTS>>

required_cols_pog == <<t_Starters, t_GmSc, t_TRB, t_AST, t_STL, t_BLK, t_PTS>>

pog_display_cols == <<t_Player, t_TRB, t_AST, t_STL, t_BLK, t_PTS, t_GmSc>>

TopScorersPart(stats_df, abbr) ==
    WithColumn(RenameColumn(SelectColumns(stats_df, required_cols_top_scorers),
                            t_Starters, t_Player),
               t_Team, abbr)

HasTopScorersPart(stats_df, abbr) ==
    stats_df.found /\ Truthy(abbr) /\ HasColumns(stats_df, required_cols_top_scorers)

all_player_stats ==
    (IF HasTopScorersPart(team1_stats_df, team1_abbr)
     THEN <<TopScorersPart(team1_stats_df, team1_abbr)>> ELSE <<>>)
    \o (IF HasTopScorersPart(team2_stats_df, team2_abbr)
        THEN <<TopScorersPart(team2_stats_df, team2_abbr)>> ELSE <<>>)

combined_df_top_scorers == ColumnToNumeric(Concat(all_player_stats), t_PTS)

HasPogPart(stats_df, abbr) ==
    stats_df.found /\ Truthy(abbr) /\ HasColumns(stats_df, required_cols_pog)

PogPart1 ==
    RenameColumn(SelectColumns(team1_stats_df, required_cols_pog), t_Starters, t_Player)

\* line 543 takes team2_players_top_scorers, not team2_players_pog
PogPart2 == RenameColumn(TopScorersPart(team2_stats_df, team2_abbr), t_Starters, t_Player)

pog_candidates_list ==
    (IF HasPogPart(team1_stats_df, team1_abbr) THEN <<PogPart1>> ELSE <<>>)
    \o (IF HasPogPart(team2_stats_df, team2_abbr) THEN <<PogPart2>> ELSE <<>>)

combined_pog_candidates_df == ColumnToNumeric(Concat(pog_candidates_list), t_GmSc)

IdxMax(df, col) ==
    LET c == ColIndex(df, col)
        best == {i \in 1..Len(df.rows) :
                    \A j \in 1..Len(df.rows) : df.rows[j][c][1] <= df.rows[i][c][1]}
    IN  CHOOSE i \in best : \A j \in best : i <= j

PlayerOfTheGame(df) ==
    LET i == IdxMax(df, t_GmSc)
    IN  [found |-> TRUE, columns |-> pog_display_cols, index |-> <<i - 1>>,
         rows |-> <<[k \in 1..Len(pog_display_cols) |->
                        df.rows[i][ColIndex(df, pog_display_cols[k])]]>>]

-----------------------------------------------------------------------------
(* main *)

\* lines 429-431: the box-score page is fetched and parsed
MainFetch(BoxScoreSoups) ==
    /\ pc = "start"
    /\ \/ \E s \in BoxScoreSoups : soup' = s /\ pc' = "line_score" /\ UNCHANGED error
       \/ soup' = soup /\ pc' = "done" /\ error' = "RequestException"
    /\ UNCHANGED <<pbp_response, line_score_df, team1_abbr, team2_abbr, pbp_df,
                   team1_stats_df, team2_stats_df, top_scorers_df,
                   player_of_the_game_df, datawrapper_configured, pubVars>>
    /\ UNCHANGED envVars

\* lines 436-448
MainLineScore ==
    /\ pc = "line_score"
    /\ LET df == scrape_line_score(soup) IN
          /\ line_score_df' = df
          /\ IF df.found /\ Len(df.rows) >= 2
             THEN team1_abbr' = df.rows[1][1] /\ team2_abbr' = df.rows[2][1]
             ELSE UNCHANGED <<team1_abbr, team2_abbr>>
    /\ pc' = "play_by_play"
    /\ UNCHANGED <<soup, pbp_response, pbp_df, team1_stats_df, team2_stats_df,
                   top_scorers_df, player_of_the_game_df, error,
                   datawrapper_configured, pubVars>>
    /\ UNCHANGED envVars

\* line 412: the URL typed by the user
box_score_url == "u1"

MainPlayByPlay_PublishUnguarded(PbpPages) ==
    /\ pc = "play_by_play"
    /\ \E r \in PbpPages :
          LET df == cached_scrape_play_by_play(cache, now, r, box_score_url,
                                               team1_abbr, team2_abbr) IN
          /\ pbp_response' = r
          /\ pbp_df' = df
          /\ cache' = CacheAfterCall(cache, now, r, box_score_url,
                                     team1_abbr, team2_abbr)
          /\ IF datawrapper_configured
             THEN pc' = "publish" /\ pub_pc' = "called"
             ELSE pc' = "team_stats" /\ UNCHANGED pub_pc
    /\ UNCHANGED <<soup, line_score_df, team1_abbr, team2_abbr, team1_stats_df,
                   team2_stats_df, top_scorers_df, player_of_the_game_df, error,
                   datawrapper_configured, calls, chart_id, csv_exists>>
    /\ UNCHANGED <<query, found_element, now, web, first_call, last_call>>

\* lines 451-460
MainPlayByPlay(PbpPages) ==
    /\ pc = "play_by_play"
    /\ \E r \in PbpPages :
          LET df == cached_scrape_play_by_play(cache, now, r, box_score_url,
                                               team1_abbr, team2_abbr) IN
          /\ pbp_response' = r
          /\ pbp_df' = df
          /\ cache' = CacheAfterCall(cache, now, r, box_score_url,
                                     team1_abbr, team2_abbr)
          /\ IF df.found /\ datawrapper_configured
             THEN pc' = "publish" /\ pub_pc' = "called"
             ELSE pc' = "team_stats" /\ UNCHANGED pub_pc
    /\ UNCHANGED <<soup, line_score_df, team1_abbr, team2_abbr, team1_stats_df,
                   team2_stats_df, top_scorers_df, player_of_the_game_df, error,
                   datawrapper_configured, calls, chart_id, csv_exists>>
    /\ UNCHANGED <<query, found_element, now, web, first_call, last_call>>

\* line 458 returns
MainPublishReturned ==
    /\ pc = "publish"
    /\ pub_pc = "returned"
    /\ pc' = "team_stats"
    /\ pub_pc' = "idle"
    /\ UNCHANGED <<mainVars, datawrapper_configured, calls, chart_id, csv_exists>>
    /\ UNCHANGED envVars

\* lines 463-485
MainTeamStats ==
    /\ pc = "team_stats"
    /\ IF line_score_df.found /\ Len(line_score_df.rows) >= 2
       THEN /\ team1_stats_df' = scrape_team_basic_stats(soup, team1_abbr)
            /\ team2_stats_df' = scrape_team_basic_stats(soup, team2_abbr)
       ELSE /\ team1_stats_df' = NoneDF
            /\ team2_stats_df' = NoneDF
    /\ pc' = "top_scorers"
    /\ UNCHANGED <<soup, pbp_response, line_score_df, team1_abbr, team2_abbr, pbp_df,
                   top_scorers_df, player_of_the_game_df, error,
                   datawrapper_configured, pubVars>>
    /\ UNCHANGED envVars

\* lines 488-525: with any player stats, lines 511-513 run and line 515 reads the
\* undefined name sorted_players_top_scorers; the NameError is caught at line 566
MainTopScorers ==
    /\ pc = "top_scorers"
    /\ IF all_player_stats # <<>>
       THEN pc' = "done" /\ error' = "NameError"
       ELSE pc' = "player_of_the_game" /\ UNCHANGED error
    /\ UNCHANGED <<soup, pbp_response, line_score_df, team1_abbr, team2_abbr, pbp_df,
                   team1_stats_df, team2_stats_df, top_scorers_df,
                   player_of_the_game_df, datawrapper_configured, pubVars>>
    /\ UNCHANGED envVars

\* lines 528-562
MainPlayerOfTheGame ==
    /\ pc = "player_of_the_game"
    /\ IF pog_candidates_list # <<>> /\ combined_pog_candidates_df.rows # <<>>
       THEN player_of_the_game_df' = PlayerOfTheGame(combined_pog_candidates_df)
       ELSE UNCHANGED player_of_the_game_df
    /\ pc' = "done"
    /\ UNCHANGED <<soup, pbp_response, line_score_df, team1_abbr, team2_abbr, pbp_df,
                   team1_stats_df, team2_stats_df, top_scorers_df, error,
                   datawrapper_configured, pubVars>>
    /\ UNCHANGED envVars

(* Input documents of main *)

StatHeader == <<t_Starters, t_MP, t_TRB, t_AST, t_STL, t_BLK, t_PTS, t_GmSc>>

StatHeaderRow == Row("", Cells(AllTh, StatHeader))

Player(name, pts, gmsc) ==
    Row("", Cells(ThTd, <<name, <<"3", "0">>, <<"5">>, <<"4">>, <<"1">>, <<"0">>, pts, gmsc>>))

t_P4 == <<"P", "4">>
t_P5 == <<"P", "5">>
t_P6 == <<"P", "6">>
t_P7 == <<"P", "7">>

TeamBodies1 ==
    { <<Player(t_P1, <<"3", "0">>, <<"2", "0">>), Player(t_P2, <<"2", "8">>, <<"2", "5">>),
        Player(t_P3, <<"2", "8">>, <<"2", "5">>), Player(t_P4, <<"2", "8">>, <<"9">>)>>,
      <<Player(t_P1, <<"1", "2">>, <<"7">>), Row("", Cells(ThTd, <<t_P2, <<"D", "N", "P">>>>))>> }

TeamBodies2 ==
    { <<Player(t_P5, <<"2", "0">>, <<"2", "5">>), Player(t_P6, <<"2", "0">>, <<"3">>),
        Player(t_P7, <<"1", "5">>, <<"1", "1">>)>>,
      <<Player(t_P5, <<"1", "2">>, <<"9">>)>> }

TeamDivs(team_abbr, bodies) ==
    { <<>>,
      <<Div(DivId(team_abbr),
            <<Table(TableId(team_abbr),
                    <<Row("", Cells(AllTh, <<t_Starters, t_MP, t_TRB>>))>>, TRUE,
                    <<Row("", Cells(ThTd, <<t_P1, <<"3", "0">>, <<"5">>>>))>>)>>)>> }
      \cup { <<Div(DivId(team_abbr),
                   <<Table(TableId(team_abbr), <<StatHeaderRow>>, TRUE, b)>>)>> :
                b \in bodies }
      \cup { <<Comment(<<Div(DivId(team_abbr),
                   <<Table(TableId(team_abbr), <<StatHeaderRow>>, TRUE, b)>>)>>)>> :
                b \in bodies }

LineScoreRow(label, total) == Row("", TdCells(<<label, total>>))

MainLineScores ==
    { <<>> }
      \cup { <<Table(LineScoreId,
                     <<GroupingRow, Row("", TdCells(<<<<NBSP>>, <<"T">>>>))>>, TRUE, b)>> :
                b \in { <<LineScoreRow(t_AAA, <<"9", "9">>)>>,
                        <<LineScoreRow(t_AAA, <<"9", "9">>), LineScoreRow(t_BBB, <<"9", "0">>)>>,
                        <<LineScoreRow(t_AAA, <<"9", "9">>), LineScoreRow(t_AAA, <<"9", "0">>)>> } }

MainSoups ==
    { ls \o d1 \o d2 :
        ls \in MainLineScores, d1 \in TeamDivs(t_AAA, TeamBodies1),
        d2 \in TeamDivs(t_BBB, TeamBodies2) }

MainPbpPages ==
    { [status |-> "http_error"],
      [status |-> "ok", soup |-> <<>>],
      [status |-> "ok",
       soup |-> <<Table(PbpId, <<>>, TRUE,
                        <<PbpRow(<<"x">>, <<"2", "-", "0">>, <<"y">>),
                          PbpRow(<<"x">>, <<"2", "-", "0">>, <<"y">>)>>)>>],
      [status |-> "ok",
       soup |-> <<Table(PbpId, <<>>, TRUE,
                        <<PbpRow(<<"x">>, <<"2", "-", "0">>, <<"y">>),
                          PbpRow(<<"x">>, <<"2", "-", "0">>, <<"y">>),
                          PbpRow(<<>>, <<"1", "0", "-", "8">>, <<" ">>)>>)>>],
      [status |-> "ok",
       soup |-> <<Comment(<<Table(PbpId, <<>>, TRUE,
                        <<PbpRow(<<"x">>, <<"2", "-", "0">>, <<"y">>),
                          PbpRow(<<"x">>, <<"2", "-", "0">>, <<"y">>),
                          PbpRow(<<"x">>, <<"1", "0", "-", "8">>, <<" ">>),
                          PbpRow(<<>>, t_NA, <<"y">>)>>)>>)>>] }

InitMain ==
    /\ pc = "start"
    /\ soup = <<>>
    /\ pbp_response = [status |-> "none"]
    /\ line_score_df = NoneDF
    /\ team1_abbr = t_Team1
    /\ team2_abbr = t_Team2
    /\ pbp_df = NoneDF
    /\ team1_stats_df = NoneDF
    /\ team2_stats_df = NoneDF
    /\ top_scorers_df = NoneDF
    /\ player_of_the_game_df = NoneDF
    /\ error = "none"
    /\ datawrapper_configured \in BOOLEAN
    /\ pub_pc = "idle"
    /\ calls = <<>>
    /\ chart_id = "None"
    /\ csv_exists = FALSE
    /\ EnvIdle

NextMain ==
    \/ MainFetch(MainSoups)
    \/ MainLineScore
    \/ MainPlayByPlay(MainPbpPages)
    \/ PublishStep
    \/ MainPublishReturned
    \/ MainTeamStats
    \/ MainTopScorers
    \/ MainPlayerOfTheGame

SpecMain == InitMain /\ [][NextMain]_vars

-----------------------------------------------------------------------------
(* Claims about the pipeline and its analytics (under SpecMain) *)

AnalyticsColumns == <<t_Starters, t_PTS, t_GmSc, t_TRB, t_AST, t_STL, t_BLK>>

TwoTeamsExtracted ==
    /\ line_score_df.found
    /\ Len(line_score_df.rows) = 2
    /\ line_score_df.rows[1][1] = t_AAA
    /\ line_score_df.rows[2][1] = t_BBB
    /\ team1_stats_df.found /\ HasColumns(team1_stats_df, AnalyticsColumns)
    /\ team2_stats_df.found /\ HasColumns(team2_stats_df, AnalyticsColumns)

\* C1: for a document with a two-row line score (labels A and B) and both
\* teams' stat tables present with player rows and the analytics columns, one
\* run of main yields two non-empty PlayerRecord sequences, a non-empty
\* Top-Scorers list and exactly one Player-of-the-Game record.
C1_EndToEnd ==
    (pc = "done" /\ TwoTeamsExtracted) =>
        /\ team1_stats_df.rows # <<>>
        /\ team2_stats_df.rows # <<>>
        /\ top_scorers_df.found /\ top_scorers_df.rows # <<>>
        /\ player_of_the_game_df.found /\ Len(player_of_the_game_df.rows) = 1

StatValue(df, i, col) == Fillna0(ToNumericCoerce(df.rows[i][ColIndex(df, col)]))[1]

CombinedRecords ==
    [i \in 1..(Len(team1_stats_df.rows) + Len(team2_stats_df.rows)) |->
        IF i <= Len(team1_stats_df.rows)
        THEN [player |-> team1_stats_df.rows[i][ColIndex(team1_stats_df, t_Starters)],
              pts |-> StatValue(team1_stats_df, i, t_PTS),
              gmsc |-> StatValue(team1_stats_df, i, t_GmSc)]
        ELSE LET j == i - Len(team1_stats_df.rows) IN
             [player |-> team2_stats_df.rows[j][ColIndex(team2_stats_df, t_Starters)],
              pts |-> StatValue(team2_stats_df, j, t_PTS),
              gmsc |-> StatValue(team2_stats_df, j, t_GmSc)]]

AtLeast(v) == {i \in 1..Len(CombinedRecords) : CombinedRecords[i].pts >= v}

FifthRankedPoints ==
    CHOOSE v \in {CombinedRecords[i].pts : i \in 1..Len(CombinedRecords)} :
        Cardinality(AtLeast(v)) >= 5 /\ Cardinality(AtLeast(v + 1)) < 5

ExpectedTopScorers ==
    IF Len(CombinedRecords) < 5
    THEN {CombinedRecords[i].player : i \in 1..Len(CombinedRecords)}
    ELSE {CombinedRecords[i].player : i \in AtLeast(FifthRankedPoints)}

\* C2: Top Scorers is tie-inclusive: over the combined records of all teams
\* (points coerced, parse failure -> 0) the result is all records when fewer
\* than 5 exist, and otherwise exactly the records whose points are >= the
\* points of the 5th-ranked record.
C2_TieInclusiveTopScorers ==
    (pc = "done" /\ TwoTeamsExtracted) =>
        /\ top_scorers_df.found
        /\ {top_scorers_df.rows[i][ColIndex(top_scorers_df, t_Player)] :
               i \in 1..Len(top_scorers_df.rows)} = ExpectedTopScorers

ExpectedPlayerOfTheGame ==
    LET best == {i \in 1..Len(CombinedRecords) :
                    \A j \in 1..Len(CombinedRecords) :
                        CombinedRecords[j].gmsc <= CombinedRecords[i].gmsc}
    IN  CombinedRecords[CHOOSE i \in best : \A j \in best : i <= j].player

\* C3: Player of the Game is the record with the maximum composite game score
\* among the records of both teams combined in team-then-row order, each record
\* carrying its own game score; ties resolve to the first in combined order.
C3_PlayerOfTheGame ==
    (pc = "done" /\ TwoTeamsExtracted) =>
        /\ player_of_the_game_df.found
        /\ player_of_the_game_df.rows[1][ColIndex(player_of_the_game_df, t_Player)]
              = ExpectedPlayerOfTheGame

PbpTableFound ==
    /\ pbp_response.status = "ok"
    /\ find_element_in_soup(pbp_response.soup, "table", PbpId) # NoElement

PbpReportedNotFound ==
    /\ PbpTableFound
    /\ (Len(LocatedPbpRows) < 3 \/ PlayRows = <<>>)
    /\ ~pbp_df.found

-----------------------------------------------------------------------------
(* One call of either table extractor on an arbitrary document *)

InitExtractors == InitLine \/ InitTeam

NextExtractors == CallScrapeLineScore \/ CallScrapeTeamBasicStats

SpecExtractors == InitExtractors /\ [][NextExtractors]_vars

LineScoreAbsent == LocatedLineScore = NoElement

LineScoreEmptyButPresent ==
    /\ LocatedLineScore # NoElement
    /\ LineScoreHeaders(LocatedLineScore) # <<>>
    /\ LocatedLineScore.tbody = <<>>

TeamTableAbsent == LocatedTeamTable = NoElement

TeamTableEmptyButPresent == HeaderSelected /\ SurvivingRows = <<>>

\* C13 (as stated): the outcome an extractor (line score, team stats) returns
\* when the table is present but has no usable body rows differs from the
\* outcome it returns for a document in which the table is absent.
C13_AbsenceDistinguishable ==
    pc = "returned" =>
        /\ LineScoreEmptyButPresent => line_score_df # scrape_line_score(<<>>)
        /\ TeamTableEmptyButPresent
              => team1_stats_df # scrape_team_basic_stats(<<>>, team1_abbr)

\* C13 (amended): both extractors return the same "not found" outcome (None)
\* when the table is absent and when it is present, with a header row, but has
\* no usable body rows.
C13_SameNotFoundOutcome ==
    pc = "returned" =>
        /\ (LineScoreAbsent \/ LineScoreEmptyButPresent) => line_score_df = NoneDF
        /\ (TeamTableAbsent \/ TeamTableEmptyButPresent) => team1_stats_df = NoneDF

C13_Witness ==
    /\ pc = "returned"
    /\ LineScoreEmptyButPresent
    /\ line_score_df = NoneDF
    /\ line_score_df = scrape_line_score(<<>>)

-----------------------------------------------------------------------------
(* Repeated calls of the cached scrape_play_by_play while time passes and *)
(* the site's pages change                                                 *)

CachePage(score) ==
    [status |-> "ok",
     soup |-> <<Table(PbpId, <<>>, TRUE,
                      <<PbpRow(<<"x">>, <<"2", "-", "0">>, <<"y">>),
                        PbpRow(<<"x">>, <<"2", "-", "0">>, <<"y">>),
                        PbpRow(<<"x">>, score, <<>>)>>)>>]

CachePages ==
    {[status |-> "http_error"], CachePage(<<"2", "-", "3">>)}

CacheArgs == {<<"u1", t_AAA, t_BBB>>, <<"u1", t_BBB, t_AAA>>, <<"u2", t_AAA, t_BBB>>}

InitCache ==
    /\ pc = "serving"
    /\ cache = {}
    /\ now = 0
    /\ web \in [Urls -> CachePages]
    /\ first_call = {}
    /\ last_call = <<>>
    /\ query = [type |-> "none", id |-> <<>>]
    /\ found_element = NoElement
    /\ soup = <<>>
    /\ pbp_response = [status |-> "none"]
    /\ line_score_df = NoneDF
    /\ team1_abbr = t_Team1
    /\ team2_abbr = t_Team2
    /\ pbp_df = NoneDF
    /\ team1_stats_df = NoneDF
    /\ team2_stats_df = NoneDF
    /\ top_scorers_df = NoneDF
    /\ player_of_the_game_df = NoneDF
    /\ error = "none"
    /\ datawrapper_configured = FALSE
    /\ pub_pc = "idle"
    /\ calls = <<>>
    /\ chart_id = "None"
    /\ csv_exists = FALSE

\* one call scrape_play_by_play(url, team1, team2) through the decorator
CallCachedScrapePlayByPlay ==
    /\ pc = "serving"
    /\ \E a \in CacheArgs :
          LET out == cached_scrape_play_by_play(cache, now, web[a[1]], a[1], a[2], a[3])
              first == ~\E f \in first_call : f.args = a
          IN  /\ pbp_df' = out
              /\ cache' = CacheAfterCall(cache, now, web[a[1]], a[1], a[2], a[3])
              /\ first_call' = IF first
                                THEN first_call \cup
                                       {[args |-> a, at |-> now, value |-> out]}
                                ELSE first_call
              /\ last_call' = <<[args |-> a, at |-> now, value |-> out, first |-> first,
                                 uncached |-> scrape_play_by_play(web[a[1]], a[2], a[3])]>>
    /\ UNCHANGED <<pc, soup, pbp_response, line_score_df, team1_abbr, team2_abbr,
                   team1_stats_df, team2_stats_df, top_scorers_df,
                   player_of_the_game_df, error, datawrapper_configured, pubVars,
                   query, found_element, now, web>>

Tick ==
    /\ pc = "serving"
    /\ \E t \in {ttl - 1, MaxClock} : t > now /\ now' = t
    /\ UNCHANGED <<pc, mainVars, datawrapper_configured, pubVars, query, found_element,
                   cache, web, first_call, last_call>>

WebChange ==
    /\ pc = "serving"
    /\ \E u \in Urls, r \in CachePages :
          r # web[u] /\ web' = [web EXCEPT ![u] = r]
    /\ UNCHANGED <<pc, mainVars, datawrapper_configured, pubVars, query, found_element,
                   cache, now, first_call, last_call>>

NextCache == CallCachedScrapePlayByPlay \/ Tick \/ WebChange

SpecCache == InitCache /\ [][NextCache]_vars

FirstCallOf(a) == CHOOSE f \in first_call : f.args = a

\* C14: within 600 s of the first call for an argument triple (URL, team1
\* label, team2 label), every call with that triple returns the output of that
\* first call; and the first call for a triple returns what the undecorated
\* function computes, whatever entries other triples have stored.
C14_CacheTransparency ==
    last_call # <<>> =>
        LET c == last_call[1]
            f == FirstCallOf(c.args)
        IN  /\ c.at - f.at < ttl => c.value = f.value
            /\ c.first => c.value = c.uncached

C14_Witness ==
    /\ last_call # <<>>
    /\ ~last_call[1].first
    /\ last_call[1].at - FirstCallOf(last_call[1].args).at = ttl - 1
    /\ last_call[1].value = FirstCallOf(last_call[1].args).value
    /\ last_call[1].value # last_call[1].uncached
    /\ \E en \in cache : en.key # CacheKey(last_call[1].args[1], last_call[1].args[2],
                                          last_call[1].args[3])

-----------------------------------------------------------------------------
(* One call of find_element_in_soup(soup, tag, id) on an arbitrary document *)

LocatorIds == {<<"x">>, <<"y">>}

LocatorNodes ==
    {Table(<<"x">>, <<>>, TRUE, <<>>), Table(<<"x">>, <<>>, FALSE, <<>>),
     Table(<<"y">>, <<>>, TRUE, <<>>), Div(<<"x">>, <<>>),
     Comment(<<>>), Comment(<<Table(<<"x">>, <<>>, TRUE, <<>>)>>),
     Comment(<<Table(<<"x">>, <<>>, FALSE, <<>>)>>),
     Comment(<<Table(<<"y">>, <<>>, TRUE, <<>>)>>),
     Div(<<"d">>, <<Table(<<"x">>, <<>>, TRUE, <<>>)>>),
     Div(<<"d">>, <<Comment(<<Table(<<"x">>, <<>>, FALSE, <<>>)>>)>>)}

InitLocator ==
    /\ pc = "find_element_in_soup"
    /\ soup \in SeqsUpTo(LocatorNodes, MaxNodes)
    /\ query \in [type : {"table", "div"}, id : LocatorIds]
    /\ found_element = NoElement
    /\ cache = {}
    /\ now = 0
    /\ web = [u \in Urls |-> [status |-> "none"]]
    /\ first_call = {}
    /\ last_call = <<>>
    /\ pbp_response = [status |-> "none"]
    /\ line_score_df = NoneDF
    /\ team1_abbr = t_Team1
    /\ team2_abbr = t_Team2
    /\ pbp_df = NoneDF
    /\ team1_stats_df = NoneDF
    /\ team2_stats_df = NoneDF
    /\ top_scorers_df = NoneDF
    /\ player_of_the_game_df = NoneDF
    /\ error = "none"
    /\ datawrapper_configured = FALSE
    /\ pub_pc = "idle"
    /\ calls = <<>>
    /\ chart_id = "None"
    /\ csv_exists = FALSE

CallFindElementInSoup ==
    /\ pc = "find_element_in_soup"
    /\ found_element' = find_element_in_soup(soup, query.type, query.id)
    /\ pc' = "returned"
    /\ UNCHANGED <<mainVars, datawrapper_configured, pubVars, query, cacheVars>>

NextLocator == CallFindElementInSoup

SpecLocator == InitLocator /\ [][NextLocator]_vars

IsMatch(e) == e.name = query.type /\ e.id = query.id

\* the first matching element of a tree in document order (comment nodes are
\* opaque), or NoElement
RECURSIVE FirstMatch(_)
FirstMatch(nodes) ==
    IF nodes = <<>> THEN NoElement
    ELSE LET e == Head(nodes) IN
         IF e.name # "#comment" /\ IsMatch(e) THEN e
         ELSE LET inner == IF e.name = "div" THEN FirstMatch(e.children)
                           ELSE NoElement
              IN  IF inner # NoElement THEN inner ELSE FirstMatch(Tail(nodes))

\* the comment nodes of a tree in document order
RECURSIVE CommentsOf(_)
CommentsOf(nodes) ==
    IF nodes = <<>> THEN <<>>
    ELSE LET e == Head(nodes) IN
         (IF e.name = "#comment" THEN <<e>>
          ELSE IF e.name = "div" THEN CommentsOf(e.children) ELSE <<>>)
         \o CommentsOf(Tail(nodes))

HoldsMatch(comment) == FirstMatch(comment.fragment) # NoElement

MatchingComments == SelectSeq(CommentsOf(soup), HoldsMatch)

\* C15: the locator returns the first match of the live tree if there is one;
\* otherwise the match held by the earliest comment node, in document order,
\* whose markup contains a match, and that element equals the one located when
\* the comment's markup stands directly in the tree; otherwise "not found".
C15_ElementLocator ==
    pc = "returned" =>
        IF FirstMatch(soup) # NoElement THEN found_element = FirstMatch(soup)
        ELSE IF MatchingComments # <<>>
        THEN /\ found_element = FirstMatch(MatchingComments[1].fragment)
             /\ found_element
                    = find_element_in_soup(MatchingComments[1].fragment,
                                           query.type, query.id)
        ELSE found_element = NoElement

C15_Witness ==
    /\ pc = "returned"
    /\ FirstMatch(soup) = NoElement
    /\ Len(MatchingComments) >= 2
    /\ FirstMatch(MatchingComments[1].fragment)
          # FirstMatch(MatchingComments[2].fragment)
    /\ found_element = FirstMatch(MatchingComments[1].fragment)

-----------------------------------------------------------------------------
(* The nested table lookup of scrape_team_basic_stats (under SpecTeam) *)

\* the team table as the locator would find it inside the located container
LocatorTeamTable ==
    IF LocatedDiv = NoElement THEN NoElement
    ELSE find_element_in_soup(LocatedDiv.children, "table", TableId(team1_abbr))

\* the document in which `table` sits directly in the team's live container
DirectlyPlaced(table) == <<Div(DivId(team1_abbr), <<table>>)>>

\* C16 (as stated): once the team's container is found, the table nested in it
\* is found whether it sits directly in the container's tree or inside a
\* comment node within the container, and is extracted as if it sat directly
\* in the container.
C16_BothLookupsUseLocator ==
    (pc = "returned" /\ LocatorTeamTable # NoElement) =>
        team1_stats_df
            = scrape_team_basic_stats(DirectlyPlaced(LocatorTeamTable), team1_abbr)

\* C16 (amended): only the container is looked up with the locator; the table
\* is searched in the container's live tree.  A table sitting directly in the
\* container is extracted the same whether the container is live or inside a
\* comment; a table that is only inside a comment node within the container
\* is not found and the result is "not found".
C16_TableLookupIsLiveOnly ==
    pc = "returned" =>
        /\ (LocatedDiv # NoElement /\ LocatedTeamTable = NoElement)
              => team1_stats_df = NoneDF
        /\ LocatedTeamTable # NoElement
              => team1_stats_df
                    = scrape_team_basic_stats(DirectlyPlaced(LocatedTeamTable),
                                              team1_abbr)

C16_Witness ==
    /\ pc = "returned"
    /\ LocatedDiv # NoElement
    /\ LocatedTeamTable = NoElement
    /\ LocatorTeamTable # NoElement
    /\ scrape_team_basic_stats(DirectlyPlaced(LocatorTeamTable), team1_abbr).found
    /\ team1_stats_df = NoneDF

-----------------------------------------------------------------------------
(* The shape of the play-by-play result (under SpecPbp) *)

\* C17: when the play-by-play table is found, the extractor returns "not
\* found" exactly when the table has fewer than 3 raw rows or no row after the
\* first two survives the skip policy; otherwise it returns a non-empty
\* sequence with exactly one MarginPoint per surviving row.
C17_ResultShape ==
    (pc = "returned" /\ PbpTableFound) =>
        IF Len(LocatedPbpRows) < 3 \/ PlayRows = <<>>
        THEN ~pbp_df.found
        ELSE /\ pbp_df.found
             /\ pbp_df.rows # <<>>
             /\ Len(pbp_df.rows) = Len(PlayRows)

=============================================================================
